---------------------------- MODULE Spec2Model ----------------------------
(***************************************************************************)
(* Model of app_2.py: the PDF entity / relation extractor.                 *)
(*                                                                         *)
(* A text is a sequence of one-character strings.  Three specifications    *)
(* share the variables:                                                    *)
(*   Spec     one run of extract_entities_relations followed by the        *)
(*            caller's convert_to_csv (lines 34-90, 121-127);              *)
(*   SpecCsv  convert_to_csv applied to an arbitrary data_str;             *)
(*   SpecCap  the caller's 1,000,000 character cap followed by the         *)
(*            chunking step, on character offsets, with the program's own  *)
(*            constants.                                                   *)
(***************************************************************************)
EXTENDS Integers, Sequences, FiniteSets, TLC

VARIABLES
    pc,              \* position of the control flow
    text,            \* argument of extract_entities_relations
    chunkSize,       \* the value of CHUNK_SIZE in force for the run
    chunks,          \* line 39
    total_chunks,    \* line 40
    i,               \* loop index of line 46 (1-based)
    all_results,     \* line 42
    progress,        \* what the st.progress bar was told, in order
    errors,          \* the st.error notifications, in order
    calls,           \* requests sent to client.chat.complete, in order
    outcomes,        \* what each request came back with, in order
    returned,        \* the values extract_entities_relations returned
    extracted_data,  \* line 121
    csv_rows,        \* the rows handed to writer.writerow, in order
    csv_data,        \* the characters of output.getvalue()
    doc_len,         \* SpecCap: len() of what extract_pdf_text returned
    pdf_text,        \* SpecCap: the offsets of the document pdf_text holds
    segments,        \* SpecCap: the offsets of each chunk of line 39
    warned           \* SpecCap: whether st.warning of line 113 was shown

vars == <<pc, text, chunkSize, chunks, total_chunks, i, all_results, progress,
          errors, calls, outcomes, returned, extracted_data, csv_rows,
          csv_data, doc_len, pdf_text, segments, warned>>

runVars == <<text, chunkSize, chunks, total_chunks, i, all_results, progress,
             errors, calls, outcomes, returned>>

capVars == <<doc_len, pdf_text, segments, warned>>

-----------------------------------------------------------------------------
(* Program constants *)

CHUNK_SIZE == 20000

MAX_TEXT_CHARS == 1000000

(* Bounds of the model *)

MaxTextLen == 4

MaxChunk == 3

MaxDataLen == 4

MaxCapSteps == 52

-----------------------------------------------------------------------------
(* Characters and strings *)

LF == "\n"

CR == "\r"

SP == " "

COMMA == ","

QUOTE == "\""

\* The characters str.strip() removes, among those the model uses.
Whitespace == {SP, LF, CR, "\t"}

Min(a, b) == IF a <= b THEN a ELSE b

\* All sequences over S of length at most n.
SeqsUpTo(S, n) == UNION {[1..k -> S] : k \in 0..n}

\* Python's s[lo:hi] for 0 <= lo: the end is clamped to len(s).
Slice(s, lo, hi) == SubSeq(s, lo + 1, Min(hi, Len(s)))

\* str.strip() with no argument.
RECURSIVE LStrip(_)
LStrip(s) ==
    IF s # <<>> /\ Head(s) \in Whitespace THEN LStrip(Tail(s)) ELSE s

RECURSIVE RStrip(_)
RStrip(s) ==
    IF s # <<>> /\ s[Len(s)] \in Whitespace
    THEN RStrip(SubSeq(s, 1, Len(s) - 1))
    ELSE s

Strip(s) == RStrip(LStrip(s))

\* sep.join(parts) for a one-character separator.
RECURSIVE Join(_, _)
Join(parts, sep) ==
    IF parts = <<>> THEN <<>>
    ELSE IF Len(parts) = 1 THEN parts[1]
    ELSE parts[1] \o <<sep>> \o Join(Tail(parts), sep)

\* s.split(sep) for a one-character separator: always at least one part.
RECURSIVE Split(_, _)
Split(s, sep) ==
    IF \A k \in 1..Len(s) : s[k] # sep THEN <<s>>
    ELSE LET p == CHOOSE k \in 1..Len(s) :
                      s[k] = sep /\ \A j \in 1..(k - 1) : s[j] # sep
         IN  <<SubSeq(s, 1, p - 1)>> \o Split(SubSeq(s, p + 1, Len(s)), sep)

-----------------------------------------------------------------------------
(* The chunking step, lines 39-40 *)

\* Faulty variant of Range: the stop value itself is yielded.
RECURSIVE Range_Inclusive(_, _, _)
Range_Inclusive(start, stop, step) ==
    IF start > stop THEN <<>>
    ELSE <<start>> \o Range_Inclusive(start + step, stop, step)

\* range(start, stop, step) for step > 0, as the iterator yields it.
RECURSIVE Range(_, _, _)
Range(start, stop, step) ==
    IF start >= stop THEN <<>>
    ELSE <<start>> \o Range(start + step, stop, step)

\* Faulty variant of ChunkBounds: every slice runs one character too far.
ChunkBounds_Overlap(n, c) ==
    LET starts == Range(0, n, c)
    IN  [k \in 1..Len(starts) |-> <<starts[k], starts[k] + c + 1>>]

\* The (i, i + CHUNK_SIZE) of every slice of line 39, for a text of n chars.
ChunkBounds(n, c) ==
    LET starts == Range(0, n, c)
    IN  [k \in 1..Len(starts) |-> <<starts[k], starts[k] + c>>]

\* chunks = [text[i:i + CHUNK_SIZE] for i in range(0, len(text), CHUNK_SIZE)]
Chunker(t, c) ==
    LET b == ChunkBounds(Len(t), c)
    IN  [k \in 1..Len(b) |-> Slice(t, b[k][1], b[k][2])]

-----------------------------------------------------------------------------
(* The extraction service, as the run sees it *)

\* message.content of a response: empty, one CSV line wrapped in
\* whitespace, two lines.
Responses ==
    { <<>>,
      <<SP, "A", COMMA, "B", LF>>,
      <<"D", LF, "E">> }

\* What makes the try block of lines 64-71 raise: the request itself, or a
\* response without content.
Causes == {"request_failed", "no_content"}

-----------------------------------------------------------------------------
(* extract_entities_relations, lines 34-79 *)

\* Lines 36-43: the chunks, the empty result list, the progress bar at 0.
Begin ==
    /\ pc = "extract"
    /\ chunks' = Chunker(text, chunkSize)
    /\ total_chunks' = Len(chunks')
    /\ all_results' = <<>>
    /\ progress' = <<[kind |-> "starting", num |-> 0, den |-> 1]>>
    /\ i' = 1
    /\ pc' = "loop"
    /\ UNCHANGED <<text, chunkSize, errors, calls, outcomes, returned,
                   extracted_data, csv_rows, csv_data>>
    /\ UNCHANGED capVars

\* Faulty variant of LoopReport: the bar is set to the chunks already done.
LoopReport_Done ==
    /\ pc = "loop"
    /\ i <= total_chunks
    /\ progress' = Append(progress,
                          [kind |-> "processing", num |-> i - 1,
                           den |-> total_chunks])
    /\ pc' = "request"
    /\ UNCHANGED <<text, chunkSize, chunks, total_chunks, i, all_results,
                   errors, calls, outcomes, returned, extracted_data,
                   csv_rows, csv_data>>
    /\ UNCHANGED capVars

\* Lines 46-47: the next chunk is taken and the bar is set to i / total_chunks.
LoopReport ==
    /\ pc = "loop"
    /\ i <= total_chunks
    /\ progress' = Append(progress,
                          [kind |-> "processing", num |-> i, den |-> total_chunks])
    /\ pc' = "request"
    /\ UNCHANGED <<text, chunkSize, chunks, total_chunks, i, all_results,
                   errors, calls, outcomes, returned, extracted_data,
                   csv_rows, csv_data>>
    /\ UNCHANGED capVars

\* Faulty variant of ExtractSuccess: the content is appended untrimmed.
ExtractSuccess_NoStrip ==
    /\ pc = "request"
    /\ \E raw \in Responses :
          /\ calls' = Append(calls, [index |-> i, total |-> total_chunks,
                                     chunk |-> chunks[i]])
          /\ outcomes' = Append(outcomes, [ok |-> TRUE, content |-> raw])
          /\ all_results' = Append(all_results, raw)
    /\ i' = i + 1
    /\ pc' = "loop"
    /\ UNCHANGED <<text, chunkSize, chunks, total_chunks, progress, errors,
                   returned, extracted_data, csv_rows, csv_data>>
    /\ UNCHANGED capVars

\* Lines 64-71: the request returns content; its strip() is appended.
ExtractSuccess ==
    /\ pc = "request"
    /\ \E raw \in Responses :
          /\ calls' = Append(calls, [index |-> i, total |-> total_chunks,
                                     chunk |-> chunks[i]])
          /\ outcomes' = Append(outcomes, [ok |-> TRUE, content |-> raw])
          /\ all_results' = Append(all_results, Strip(raw))
    /\ i' = i + 1
    /\ pc' = "loop"
    /\ UNCHANGED <<text, chunkSize, chunks, total_chunks, progress, errors,
                   returned, extracted_data, csv_rows, csv_data>>
    /\ UNCHANGED capVars

\* Faulty variant of ExtractFailure: the exception leaves the function.
ExtractFailure_Raise ==
    /\ pc = "request"
    /\ \E e \in Causes :
          /\ calls' = Append(calls, [index |-> i, total |-> total_chunks,
                                     chunk |-> chunks[i]])
          /\ outcomes' = Append(outcomes, [ok |-> FALSE, content |-> e])
    /\ pc' = "raised"
    /\ UNCHANGED <<text, chunkSize, chunks, total_chunks, i, all_results,
                   progress, errors, returned, extracted_data, csv_rows,
                   csv_data>>
    /\ UNCHANGED capVars

\* Faulty variant of ExtractFailure: the chunk is skipped without st.error.
ExtractFailure_Silent ==
    /\ pc = "request"
    /\ \E e \in Causes :
          /\ calls' = Append(calls, [index |-> i, total |-> total_chunks,
                                     chunk |-> chunks[i]])
          /\ outcomes' = Append(outcomes, [ok |-> FALSE, content |-> e])
    /\ i' = i + 1
    /\ pc' = "loop"
    /\ UNCHANGED <<text, chunkSize, chunks, total_chunks, all_results,
                   progress, errors, returned, extracted_data, csv_rows,
                   csv_data>>
    /\ UNCHANGED capVars

\* Lines 64-75: the try block raises; st.error shows it and the loop goes on.
ExtractFailure ==
    /\ pc = "request"
    /\ \E e \in Causes :
          /\ calls' = Append(calls, [index |-> i, total |-> total_chunks,
                                     chunk |-> chunks[i]])
          /\ outcomes' = Append(outcomes, [ok |-> FALSE, content |-> e])
          /\ errors' = Append(errors, [chunk |-> i, cause |-> e])
    /\ i' = i + 1
    /\ pc' = "loop"
    /\ UNCHANGED <<text, chunkSize, chunks, total_chunks, all_results,
                   progress, returned, extracted_data, csv_rows, csv_data>>
    /\ UNCHANGED capVars

\* Faulty variant of Finish: the results are joined with a space.
Finish_SpaceJoin ==
    /\ pc = "loop"
    /\ i > total_chunks
    /\ progress' = Append(progress, [kind |-> "completed", num |-> 1, den |-> 1])
    /\ returned' = <<Join(all_results, SP)>>
    /\ extracted_data' = returned'[1]
    /\ pc' = "convert"
    /\ UNCHANGED <<text, chunkSize, chunks, total_chunks, i, all_results,
                   errors, calls, outcomes, csv_rows, csv_data>>
    /\ UNCHANGED capVars

\* Lines 78-79 and 121: the bar is set to 1.0 and the joined results are
\* returned to the caller, which keeps them in extracted_data.
Finish ==
    /\ pc = "loop"
    /\ i > total_chunks
    /\ progress' = Append(progress, [kind |-> "completed", num |-> 1, den |-> 1])
    /\ returned' = <<Join(all_results, LF)>>
    /\ extracted_data' = returned'[1]
    /\ pc' = "convert"
    /\ UNCHANGED <<text, chunkSize, chunks, total_chunks, i, all_results,
                   errors, calls, outcomes, csv_rows, csv_data>>
    /\ UNCHANGED capVars

-----------------------------------------------------------------------------
(* convert_to_csv, lines 82-90 *)

\* The character U+00E9, the one non-ASCII character of the model.
E_ACUTE == "U+00E9"

\* ord() of the characters the model uses.
Ord(c) ==
    CASE c = "\t" -> 9
      [] c = LF -> 10
      [] c = CR -> 13
      [] c = SP -> 32
      [] c = QUOTE -> 34
      [] c = COMMA -> 44
      [] c = "A" -> 65
      [] c = "B" -> 66
      [] c = "D" -> 68
      [] c = "E" -> 69
      [] c = "a" -> 97
      [] c = "b" -> 98
      [] c = E_ACUTE -> 233

\* One character in UTF-8 (code points below 0x800).
Utf8Char(c) ==
    IF Ord(c) < 128 THEN <<Ord(c)>>
    ELSE <<192 + (Ord(c) \div 64), 128 + (Ord(c) % 64)>>

\* str.encode("utf-8")
RECURSIVE Utf8Encode(_)
Utf8Encode(s) ==
    IF s = <<>> THEN <<>> ELSE Utf8Char(Head(s)) \o Utf8Encode(Tail(s))

\* Lines 86-88: the rows, one per line of data_str.strip(), each the
\* stripped pieces of the line between commas.
CsvRows(data_str) ==
    LET lines == Split(Strip(data_str), LF)
    IN  [k \in 1..Len(lines) |->
            LET cols == Split(lines[k], COMMA)
            IN  [j \in 1..Len(cols) |-> Strip(cols[j])]]

\* Faulty variant of NeedsQuote: a carriage return does not force quoting.
NeedsQuote_NoCR(field) ==
    \E k \in 1..Len(field) : field[k] \in {COMMA, QUOTE, LF}

\* csv.writer, excel dialect, QUOTE_MINIMAL: a field is quoted when it holds
\* the delimiter, the quote character or a character of the line terminator.
NeedsQuote(field) ==
    \E k \in 1..Len(field) : field[k] \in {COMMA, QUOTE, CR, LF}

\* doublequote: every quote character of a quoted field is written twice.
RECURSIVE DoubleQuotes(_)
DoubleQuotes(field) ==
    IF field = <<>> THEN <<>>
    ELSE (IF Head(field) = QUOTE THEN <<QUOTE, QUOTE>> ELSE <<Head(field)>>)
         \o DoubleQuotes(Tail(field))

\* One field as the writer writes it; a row of one empty field is written
\* as "" so that the line is not empty.
WriteField(field, alone) ==
    IF NeedsQuote(field) \/ (alone /\ field = <<>>)
    THEN <<QUOTE>> \o DoubleQuotes(field) \o <<QUOTE>>
    ELSE field

\* writer.writerow(row): the fields, commas between them, then "\r\n".
WriteRow(row) ==
    Join([j \in 1..Len(row) |-> WriteField(row[j], Len(row) = 1)], COMMA)
    \o <<CR, LF>>

RECURSIVE WriteRows(_)
WriteRows(rows) ==
    IF rows = <<>> THEN <<>> ELSE WriteRow(Head(rows)) \o WriteRows(Tail(rows))

\* Lines 127 and 82-90: csv_data = convert_to_csv(extracted_data).
ConvertToCsv ==
    /\ pc = "convert"
    /\ csv_rows' = CsvRows(extracted_data)
    /\ csv_data' = Utf8Encode(WriteRows(csv_rows'))
    /\ pc' = "done"
    /\ UNCHANGED runVars
    /\ UNCHANGED extracted_data
    /\ UNCHANGED capVars

-----------------------------------------------------------------------------
(* Spec: one run of the pipeline *)

\* The texts a run is given.
Texts == SeqsUpTo({"a", "b"}, MaxTextLen)

Init ==
    /\ pc = "extract"
    /\ text \in Texts
    /\ chunkSize \in 1..MaxChunk
    /\ chunks = <<>>
    /\ total_chunks = 0
    /\ i = 0
    /\ all_results = <<>>
    /\ progress = <<>>
    /\ errors = <<>>
    /\ calls = <<>>
    /\ outcomes = <<>>
    /\ returned = <<>>
    /\ extracted_data = <<>>
    /\ csv_rows = <<>>
    /\ csv_data = <<>>
    /\ doc_len = 0
    /\ pdf_text = [from |-> 0, to |-> 0]
    /\ segments = <<>>
    /\ warned = FALSE

Next ==
    \/ Begin
    \/ LoopReport
    \/ ExtractSuccess
    \/ ExtractFailure
    \/ Finish
    \/ ConvertToCsv

Spec == Init /\ [][Next]_vars

-----------------------------------------------------------------------------
(* Reading a table back: bytes.decode("utf-8") and csv.reader, excel       *)
(* dialect, over io.StringIO(..., newline="").  Not part of app_2.py: the  *)
(* inverse against which the written table is compared.                    *)

\* chr() of the code points the model uses.
Chr(n) == CHOOSE c \in {"\t", LF, CR, SP, QUOTE, COMMA, "A", "B", "D",
                        "E", "a", "b", E_ACUTE} : Ord(c) = n

RECURSIVE Utf8Decode(_)
Utf8Decode(bytes) ==
    IF bytes = <<>> THEN <<>>
    ELSE IF Head(bytes) < 128
         THEN <<Chr(Head(bytes))>> \o Utf8Decode(Tail(bytes))
         ELSE <<Chr((Head(bytes) - 192) * 64 + (bytes[2] - 128))>>
              \o Utf8Decode(Tail(Tail(bytes)))

\* What the reader's state machine is fed: the characters, and the mark EOL
\* after every line of the input ("\n", "\r" and "\r\n" all end a line).
EOL == "EOL"

RECURSIVE ReaderEvents(_)
ReaderEvents(s) ==
    IF s = <<>> THEN <<>>
    ELSE IF Len(s) = 1 THEN <<s[1], EOL>>
    ELSE IF s[1] = LF \/ (s[1] = CR /\ s[2] # LF)
         THEN <<s[1], EOL>> \o ReaderEvents(Tail(s))
         ELSE <<s[1]>> \o ReaderEvents(Tail(s))

SaveField(st) == [st EXCEPT !.fields = Append(st.fields, st.field),
                            !.field = <<>>]

AddChar(st, c) == [st EXCEPT !.field = Append(st.field, c)]

To(st, state) == [st EXCEPT !.state = state]

AfterNewline(c) == IF c = EOL THEN "START_RECORD" ELSE "EAT_CRNL"

\* parse_process_char of the reader, one state per CASE arm.
StartField(st, c) ==
    IF c \in {LF, CR, EOL} THEN To(SaveField(st), AfterNewline(c))
    ELSE IF c = QUOTE THEN To(st, "IN_QUOTED_FIELD")
    ELSE IF c = COMMA THEN To(SaveField(st), "START_FIELD")
    ELSE To(AddChar(st, c), "IN_FIELD")

ProcessChar(st, c) ==
    CASE st.state = "START_RECORD" ->
            IF c = EOL THEN st
            ELSE IF c \in {LF, CR} THEN To(st, "EAT_CRNL")
            ELSE StartField(st, c)
      [] st.state = "START_FIELD" -> StartField(st, c)
      [] st.state = "IN_FIELD" ->
            IF c \in {LF, CR, EOL} THEN To(SaveField(st), AfterNewline(c))
            ELSE IF c = COMMA THEN To(SaveField(st), "START_FIELD")
            ELSE AddChar(st, c)
      [] st.state = "IN_QUOTED_FIELD" ->
            IF c = EOL THEN st
            ELSE IF c = QUOTE THEN To(st, "QUOTE_IN_QUOTED_FIELD")
            ELSE AddChar(st, c)
      [] st.state = "QUOTE_IN_QUOTED_FIELD" ->
            IF c = QUOTE THEN To(AddChar(st, c), "IN_QUOTED_FIELD")
            ELSE IF c = COMMA THEN To(SaveField(st), "START_FIELD")
            ELSE IF c \in {LF, CR, EOL}
                 THEN To(SaveField(st), AfterNewline(c))
            ELSE To(AddChar(st, c), "IN_FIELD")
      [] st.state = "EAT_CRNL" ->
            IF c \in {LF, CR} THEN st
            ELSE IF c = EOL THEN To(st, "START_RECORD")
            ELSE To(st, "ERROR")
      [] st.state = "ERROR" -> st

\* A record is returned when a line ends with the machine back at
\* START_RECORD.
ReaderStep(st, c) ==
    LET nx == ProcessChar(st, c)
    IN  IF c = EOL /\ nx.state = "START_RECORD"
        THEN [nx EXCEPT !.rows = Append(nx.rows, nx.fields), !.fields = <<>>]
        ELSE nx

RECURSIVE ReaderRun(_, _)
ReaderRun(st, events) ==
    IF events = <<>> THEN st
    ELSE ReaderRun(ReaderStep(st, Head(events)), Tail(events))

\* list(csv.reader(...)): the rows, or the error the reader raises.  Input
\* that ends inside a record yields what was read of it.
CsvParse(s) ==
    LET st == ReaderRun([state |-> "START_RECORD", field |-> <<>>,
                         fields |-> <<>>, rows |-> <<>>], ReaderEvents(s))
    IN  IF st.state = "ERROR" THEN "csv.Error"
        ELSE IF st.state = "START_RECORD" THEN st.rows
        ELSE Append(st.rows, Append(st.fields, st.field))

-----------------------------------------------------------------------------
(* SpecCsv: convert_to_csv on any data_str *)

CsvAlphabet == {"a", COMMA, QUOTE, LF, CR, SP, E_ACUTE}

InitCsv ==
    /\ pc = "convert"
    /\ extracted_data \in SeqsUpTo(CsvAlphabet, MaxDataLen)
    /\ text = <<>>
    /\ chunkSize = CHUNK_SIZE
    /\ chunks = <<>>
    /\ total_chunks = 0
    /\ i = 0
    /\ all_results = <<>>
    /\ progress = <<>>
    /\ errors = <<>>
    /\ calls = <<>>
    /\ outcomes = <<>>
    /\ returned = <<>>
    /\ csv_rows = <<>>
    /\ csv_data = <<>>
    /\ doc_len = 0
    /\ pdf_text = [from |-> 0, to |-> 0]
    /\ segments = <<>>
    /\ warned = FALSE

NextCsv == ConvertToCsv

SpecCsv == InitCsv /\ [][NextCsv]_vars

-----------------------------------------------------------------------------
(* SpecCap: the caller's cap (lines 109-121) and the chunking it feeds, on  *)
(* character offsets.  A text is the span [from, to) of the document's      *)
(* characters it holds.                                                     *)

SpanLen(sp) == sp.to - sp.from

\* s[lo:hi] on a span, for 0 <= lo: both ends are clamped to len(s).
SpanSlice(sp, lo, hi) ==
    [from |-> sp.from + Min(lo, SpanLen(sp)),
     to |-> sp.from + Min(hi, SpanLen(sp))]

\* Line 39 on a span.
ChunkSpans(sp, c) ==
    LET b == ChunkBounds(SpanLen(sp), c)
    IN  [k \in 1..Len(b) |-> SpanSlice(sp, b[k][1], b[k][2])]

\* The document lengths tried: around every multiple of CHUNK_SIZE.
CapLens ==
    {n \in {k * CHUNK_SIZE + d : k \in 0..MaxCapSteps, d \in {-1, 0, 1}} :
        n >= 0}

\* Line 109: pdf_text is the whole extracted text.
InitCap ==
    /\ pc = "extracted"
    /\ doc_len \in CapLens
    /\ pdf_text = [from |-> 0, to |-> doc_len]
    /\ segments = <<>>
    /\ warned = FALSE
    /\ chunkSize = CHUNK_SIZE
    /\ text = <<>>
    /\ chunks = <<>>
    /\ total_chunks = 0
    /\ i = 0
    /\ all_results = <<>>
    /\ progress = <<>>
    /\ errors = <<>>
    /\ calls = <<>>
    /\ outcomes = <<>>
    /\ returned = <<>>
    /\ extracted_data = <<>>
    /\ csv_rows = <<>>
    /\ csv_data = <<>>

\* Faulty variant of CapInput: the warning is shown but nothing is cut.
CapInput_NoCut ==
    /\ pc = "extracted"
    /\ warned' = (SpanLen(pdf_text) > MAX_TEXT_CHARS)
    /\ pc' = "capped"
    /\ UNCHANGED <<doc_len, pdf_text, segments, extracted_data, csv_rows,
                   csv_data>>
    /\ UNCHANGED runVars

\* Lines 112-114: text longer than 1,000,000 characters is cut, with a
\* warning.
CapInput ==
    /\ pc = "extracted"
    /\ IF SpanLen(pdf_text) > MAX_TEXT_CHARS
       THEN /\ warned' = TRUE
            /\ pdf_text' = SpanSlice(pdf_text, 0, MAX_TEXT_CHARS)
       ELSE UNCHANGED <<warned, pdf_text>>
    /\ pc' = "capped"
    /\ UNCHANGED <<doc_len, segments, extracted_data, csv_rows, csv_data>>
    /\ UNCHANGED runVars

\* Lines 121 and 39-40: extract_entities_relations(pdf_text) cuts its chunks.
BeginCap ==
    /\ pc = "capped"
    /\ segments' = ChunkSpans(pdf_text, chunkSize)
    /\ total_chunks' = Len(segments')
    /\ pc' = "chunked"
    /\ UNCHANGED <<text, chunkSize, chunks, i, all_results, progress, errors,
                   calls, outcomes, returned, extracted_data, csv_rows,
                   csv_data, doc_len, pdf_text, warned>>

NextCap ==
    \/ CapInput
    \/ BeginCap

SpecCap == InitCap /\ [][NextCap]_vars

-----------------------------------------------------------------------------
(* Properties *)

\* The run has left extract_entities_relations.
RunOver == pc \in {"convert", "done"}

SetMin(S) == CHOOSE x \in S : \A y \in S : x <= y

SetMax(S) == CHOOSE x \in S : \A y \in S : x >= y

\* The indices of the requests that came back with content / that raised.
OkIndices ==
    LET IsOk(j) == outcomes[j].ok
    IN  SelectSeq([j \in 1..Len(outcomes) |-> j], IsOk)

FailedIndices ==
    LET IsFailed(j) == ~outcomes[j].ok
    IN  SelectSeq([j \in 1..Len(outcomes) |-> j], IsFailed)

\* A content without its leading and trailing whitespace: what lies between
\* its first and its last character that is not whitespace.
Trimmed(raw) ==
    LET solid == {k \in 1..Len(raw) : raw[k] \notin Whitespace}
    IN  IF solid = {} THEN <<>> ELSE SubSeq(raw, SetMin(solid), SetMax(solid))

\* The trimmed payloads of the successful segments, in segment order.
Payloads == [k \in 1..Len(OkIndices) |-> Trimmed(outcomes[OkIndices[k]].content)]

RECURSIVE Concat(_)
Concat(parts) ==
    IF parts = <<>> THEN <<>> ELSE Head(parts) \o Concat(Tail(parts))

RECURSIVE SumLen(_)
SumLen(parts) ==
    IF parts = <<>> THEN 0 ELSE Len(Head(parts)) + SumLen(Tail(parts))

\* Where part k starts in the parts laid out with one character between them.
RECURSIVE Offset(_, _)
Offset(parts, k) ==
    IF k = 1 THEN 0 ELSE Offset(parts, k - 1) + Len(parts[k - 1]) + 1

NumLF(s) == Cardinality({k \in 1..Len(s) : s[k] = LF})

\* The lines of a text as split("\n") counts them (line 86): one more than
\* its line breaks.
Lines(s) == NumLF(s) + 1

RECURSIVE SumLF(_)
SumLF(parts) ==
    IF parts = <<>> THEN 0 ELSE NumLF(Head(parts)) + SumLF(Tail(parts))

\* C1: once the chunks are cut, their contents concatenated in index order
\* are the text itself, for every text and every chunk size.
C1_ConcatIsText ==
    pc # "extract" => Concat(chunks) = text

\* C1 witness: several chunks, the last one short, over a text holding both
\* characters.
C1_Witness ==
    /\ pc = "loop"
    /\ Len(chunks) >= 2
    /\ Len(chunks[Len(chunks)]) < chunkSize
    /\ \E j, k \in 1..Len(text) : text[j] # text[k]

\* C2: the number of chunks is ceil(len(text) / chunk size), zero for the
\* empty text; every chunk but the last has the chunk size, and the last has
\* len(text) mod chunk size characters, or a full chunk size when that is 0.
C2_CountAndLengths ==
    pc # "extract" =>
        /\ total_chunks = Len(chunks)
        /\ Len(chunks) = (Len(text) + chunkSize - 1) \div chunkSize
        /\ (text = <<>>) => (chunks = <<>>)
        /\ \A k \in 1..(Len(chunks) - 1) : Len(chunks[k]) = chunkSize
        /\ chunks # <<>> =>
              Len(chunks[Len(chunks)]) =
                  IF Len(text) % chunkSize = 0 THEN chunkSize
                  ELSE Len(text) % chunkSize

\* C2 witness: a text whose length is an exact non-zero multiple of the chunk
\* size, cut into several chunks.
C2_Witness ==
    /\ pc = "loop"
    /\ Len(chunks) >= 2
    /\ Len(text) % chunkSize = 0

\* C3: the requests sent so far are those of segments 1, 2, ... in that
\* order, one each, whatever came back; when the run is over every segment
\* has had its request, so no failure stopped the loop or was retried.
C3_OneCallPerSegmentInOrder ==
    /\ Len(calls) = Len(outcomes)
    /\ Len(calls) <= Len(chunks)
    /\ \A j \in 1..Len(calls) :
          /\ calls[j].index = j
          /\ calls[j].total = Len(chunks)
          /\ calls[j].chunk = chunks[j]
    /\ pc \notin {"extract", "loop", "request"} =>
          /\ RunOver
          /\ Len(calls) = Len(chunks)

\* C3 witness: a finished run in which a failed request was followed by a
\* successful one and by another failed one.
C3_Witness ==
    /\ RunOver
    /\ Len(outcomes) >= 3
    /\ ~outcomes[1].ok
    /\ outcomes[2].ok
    /\ ~outcomes[3].ok

\* C4: what the run returns is the trimmed payloads of the successful
\* segments, in segment order, with exactly one line break between
\* neighbours and nothing else.
C4_AggregateIsPayloadsInOrder ==
    RunOver =>
        /\ returned = <<extracted_data>>
        /\ Len(extracted_data) =
              SumLen(Payloads) + (IF Payloads = <<>> THEN 0 ELSE Len(Payloads) - 1)
        /\ \A k \in 1..Len(Payloads) :
              /\ SubSeq(extracted_data, Offset(Payloads, k) + 1,
                        Offset(Payloads, k) + Len(Payloads[k])) = Payloads[k]
              /\ k < Len(Payloads) =>
                    extracted_data[Offset(Payloads, k) + Len(Payloads[k]) + 1] = LF

\* C4 witness: a finished run with a failure between two successes whose
\* payloads differ, one of them with whitespace to trim.
C4_Witness ==
    /\ RunOver
    /\ Len(outcomes) >= 3
    /\ outcomes[1].ok /\ outcomes[1].content = <<SP, "A", COMMA, "B", LF>>
    /\ ~outcomes[2].ok
    /\ outcomes[3].ok /\ outcomes[3].content = <<"D", LF, "E">>

\* The progress.progress calls so far: the bar without its creation at 0.
Updates == IF progress = <<>> THEN <<>> ELSE Tail(progress)

\* The per-segment updates among them.
SegmentUpdates ==
    LET IsSegment(u) == u.kind = "processing"
    IN  SelectSeq(Updates, IsSegment)

\* C5 as stated, for a run with at least one success: the returned text has
\* exactly one line per successful segment, whatever the payloads (n lines
\* when all n succeed, n - 1 when exactly one fails).
C5_OneLinePerSuccess ==
    (RunOver /\ OkIndices # <<>>) =>
        Lines(extracted_data) = Len(OkIndices)

\* C5 amended: the returned text has one line per successful segment and one
\* more for every line break inside a trimmed payload, so exactly one line
\* per successful segment when no payload holds a line break; with no
\* successful segment it is the empty text.
C5_LinesOfPayloads ==
    RunOver =>
        /\ OkIndices = <<>> => extracted_data = <<>>
        /\ OkIndices # <<>> =>
              Lines(extracted_data) = Len(OkIndices) + SumLF(Payloads)

\* C5 witness: a finished run over three segments in which the second alone
\* failed and the others returned single-line payloads: two lines.
C5_Witness ==
    /\ RunOver
    /\ Len(outcomes) = 3
    /\ FailedIndices = <<2>>
    /\ SumLF(Payloads) = 0
    /\ Lines(extracted_data) = 2

\* C6 as stated: n + 1 updates in a finished run, and every per-segment
\* update (completed, total) comes after that segment's outcome, so that
\* completed never exceeds the number of requests that have returned.
C6_ReportAfterOutcome ==
    /\ RunOver => Len(Updates) = Len(chunks) + 1
    /\ \A k \in 1..Len(SegmentUpdates) : SegmentUpdates[k].num <= Len(outcomes)

\* C6 amended: the bar is created at 0 and then updated once per segment and
\* once more at completion (n + 1 updates); the update of segment j carries
\* (j, n) and is made before that segment's request, when j - 1 requests
\* have returned.
C6_ReportBeforeRequest ==
    /\ pc # "extract" =>
          progress[1] = [kind |-> "starting", num |-> 0, den |-> 1]
    /\ \A k \in 1..Len(SegmentUpdates) :
          /\ Updates[k] = SegmentUpdates[k]
          /\ SegmentUpdates[k] =
                [kind |-> "processing", num |-> k, den |-> Len(chunks)]
    /\ pc = "request" => Len(SegmentUpdates) = Len(outcomes) + 1
    /\ pc \in {"loop", "convert", "done"} =>
          Len(SegmentUpdates) = Len(outcomes)
    /\ RunOver =>
          /\ Len(Updates) = Len(chunks) + 1
          /\ Updates[Len(Updates)] = [kind |-> "completed", num |-> 1, den |-> 1]

\* C6 witness: the update of the third segment is out and only two requests
\* have returned.
C6_Witness ==
    /\ pc = "request"
    /\ Len(outcomes) = 2
    /\ SegmentUpdates[Len(SegmentUpdates)].num = 3

\* The skipped-index list a run hands back: the second returned value; none
\* is returned when the run returns a single value.
ReturnedSkipped == IF Len(returned) >= 2 THEN returned[2] ELSE <<>>

C8_EmptyTable ==
    (pc = "done" /\ extracted_data = <<>>) =>
        (csv_rows = <<>> /\ csv_data = <<>>)

\* C9: the bytes convert_to_csv wrote, decoded and read back with the same
\* dialect, give the rows it built field for field; these are one per line
\* of the stripped input, their fields free of commas, line breaks and
\* surrounding whitespace.
C9_RoundTrip ==
    pc = "done" =>
        /\ CsvParse(Utf8Decode(csv_data)) = csv_rows
        /\ Len(csv_rows) = NumLF(Trimmed(extracted_data)) + 1
        /\ \A r \in 1..Len(csv_rows) : \A f \in 1..Len(csv_rows[r]) :
              LET field == csv_rows[r][f]
              IN  /\ \A k \in 1..Len(field) : field[k] \notin {COMMA, LF}
                  /\ field = Trimmed(field)

\* C9 witness: a table written with a field that holds a quote character and
\* a carriage return.
C9_Witness ==
    /\ pc = "done"
    /\ \E r \in 1..Len(csv_rows) : \E f \in 1..Len(csv_rows[r]) :
          /\ \E k \in 1..Len(csv_rows[r][f]) : csv_rows[r][f][k] = QUOTE
          /\ \E k \in 1..Len(csv_rows[r][f]) : csv_rows[r][f][k] = CR

\* C10: the text handed to extract_entities_relations is the first
\* min(length, 1,000,000) characters of the extracted text, and with chunks of
\* 20,000 characters it is cut into at most 50 segments.
C10_CapBeforeChunking ==
    /\ pc \in {"capped", "chunked"} =>
          /\ pdf_text = [from |-> 0, to |-> Min(doc_len, 1000000)]
          /\ warned = (doc_len > 1000000)
    /\ pc = "chunked" =>
          /\ chunkSize = 20000
          /\ total_chunks = Len(segments)
          /\ total_chunks <= 50

\* C10 witness: a text longer than 1,000,000 characters was cut and gives
\* exactly 50 segments.
C10_Witness ==
    /\ pc = "chunked"
    /\ doc_len > 1000000
    /\ total_chunks = 50

=============================================================================
